---- MODULE Spec2Model ----
(***************************************************************************)
(* A model of chromite's LKGM manager (buildbot/lkgm_manager.py): the      *)
(* candidate version info, candidate creation with the in-flight retry     *)
(* loop, the builder status poll loop and the promotion retry loop.        *)
(*                                                                         *)
(* The specifications share the module, one per entry point:               *)
(*   SpecPromote  two processes running PromoteCandidate on a shared store *)
(*   SpecStatus   one call of GetBuildersStatus, markers changing under it *)
(*   SpecCand     successive CreateNewCandidate / GetLatestCandidate calls *)
(*   SpecVersion  the methods of _LKGMCandidateInfo applied to versions    *)
(*   SpecLatest   _GetLatestCandidateByVersion applied to candidate lists  *)
(***************************************************************************)
EXTENDS Integers, Sequences, FiniteSets, TLC

VARIABLES
    \* ---- PromoteCandidate, per process ----
    ppc,              \* position of each process inside PromoteCandidate
    current_version,  \* self.current_version (text, <<>> when not set)
    have_local,       \* os.path.exists(path_to_candidate)
    retries,          \* the retries argument
    index,            \* the loop variable of the for loop
    last_error,       \* the local last_error (<<>> while unbound)
    exc,              \* the exception that left the call, if any
    oplog,            \* history: the store/command operations performed
    work,             \* the local working copy of the manifests repository
    \* ---- the shared store ----
    remote,           \* the remote branch: its commits and the LKGM pointer
    \* ---- GetBuildersStatus ----
    gpc,              \* position inside GetBuildersStatus
    builders_array,   \* the argument: a list of builder names
    builder_statuses, \* the dict being built
    num_complete,     \* the local num_complete
    start_time,       \* the local start_time
    now,              \* time.time(), in seconds
    markers,          \* the marker files of the current version, as synced
    iters,            \* history: loop iterations started
    sleeps,           \* history: calls of time.sleep
    syncs,            \* history: calls of _SyncGitRepo
    scans,            \* history: passes of the for loop over the builders
    store_found,      \* the store's markers as the last resync found them
    store_markers,    \* the store's markers as the last resync left them
    gexc,             \* the exception that left GetBuildersStatus, if any
    \* ---- CreateNewCandidate / GetLatestCandidate of manager "p1" ----
    cpc,              \* position inside the call ("idle" between calls)
    ckind,            \* which entry point is running
    cretries,         \* its retries argument
    cindex,           \* the loop variable of _SetInFlightWithRetry
    clast_error,      \* the local last_error of _SetInFlightWithRetry
    cexc,             \* the exception that left the last call, if any
    iflog,            \* history: the in-flight commits the call attempted
    coutcome,         \* how the last call ended
    calls,            \* history: calls begun
    quiet,            \* history: so far only calls of CreateNewCandidate
                      \* that succeeded, and no candidate of other builders
    last_created,     \* history: the candidate of the last successful
                      \* CreateNewCandidate
    prev_created,     \* history: the candidate of the one before it
    last_current,     \* history: the current version of the last call
                      \* that succeeded
    baseline,         \* the version the version file holds
    ledger,           \* the candidates of the branch in the shared store
    processed,        \* those this builder has marked in-flight
    self_all,         \* self.all: the candidates the last _LoadSpecs read
    ledger0,          \* history: the ledger before the first call
    \* ---- _LKGMCandidateInfo and _GetLatestCandidateByVersion ----
    vpc,              \* which method has been applied ("input" before)
    va,               \* the first version given: numbers and optional -rcN
    vb,               \* the second version given
    vall,             \* self.all: the known candidates, as texts
    vobj,             \* the fields of the _LKGMCandidateInfo object built
    vout              \* what the method returned

pvars == <<ppc, current_version, have_local, retries, index, last_error,
           exc, oplog, work, remote>>

gvars == <<gpc, builders_array, builder_statuses, num_complete, start_time,
           now, markers, iters, sleeps, syncs, scans, gexc, store_found,
           store_markers>>

hvars == <<calls, quiet, last_created, prev_created, last_current>>

cvars == <<cpc, ckind, cretries, cindex, clast_error, cexc, iflog, coutcome,
           baseline, ledger, processed, self_all, ledger0, hvars>>

vvars == <<vpc, va, vb, vall, vobj, vout>>

vars == <<pvars, gvars, cvars, vvars>>

(***************************************************************************)
(* Bounds of the model.                                                    *)
(***************************************************************************)
MaxRetries == 2
MaxRev == 2
MaxBuilders == 2
MaxCalls == 2

Procs == {"p1", "p2"}

(***************************************************************************)
(* Text: a string is a sequence of one-character strings.                  *)
(***************************************************************************)
Digits == <<"0", "1", "2", "3", "4", "5", "6", "7", "8", "9">>

DigitChars == {Digits[d] : d \in 1..10}

IsDigit(c) == c \in DigitChars

DigitVal(c) == (CHOOSE d \in 1..10 : Digits[d] = c) - 1

RECURSIVE IntToText(_)
\* '%s' % n for a non-negative int n
IntToText(n) ==
    IF n < 10 THEN <<Digits[n + 1]>>
    ELSE IntToText(n \div 10) \o <<Digits[(n % 10) + 1]>>

RECURSIVE TextToInt(_)
\* int(text) for a text of digits
TextToInt(t) ==
    IF Len(t) = 0 THEN 0
    ELSE 10 * TextToInt(SubSeq(t, 1, Len(t) - 1)) + DigitVal(t[Len(t)])

\* text.startswith(prefix)
StartsWith(text, prefix) ==
    /\ Len(prefix) <= Len(text)
    /\ SubSeq(text, 1, Len(prefix)) = prefix

(***************************************************************************)
(* _LKGMCandidateInfo: the version info of an LKGM candidate.              *)
(***************************************************************************)
\* the end of the run of digits that starts at position i (i - 1 if none)
RECURSIVE RunEnd(_, _)
RunEnd(t, i) ==
    IF i <= Len(t) /\ IsDigit(t[i]) THEN RunEnd(t, i + 1) ELSE i - 1

\* the position after the dot that follows the run of digits i..j, 0 if none
DotAfterRun(t, i, j) ==
    IF j >= i /\ j < Len(t) /\ t[j + 1] = "." THEN j + 2 ELSE 0

\* \d+\. at position i: the position after the dot, 0 when there is no match
DotAfter(t, i) ==
    IF i = 0 \/ i > Len(t) THEN 0 ELSE DotAfterRun(t, i, RunEnd(t, i))

\* (-rc(\d+))? after position e: the text of group 2, empty when absent
RcGroup(t, e) ==
    IF /\ e + 4 <= Len(t)
       /\ SubSeq(t, e + 1, e + 3) = <<"-", "r", "c">>
       /\ IsDigit(t[e + 4])
    THEN SubSeq(t, e + 4, RunEnd(t, e + 4))
    ELSE <<>>

\* the match whose fourth number is the run of digits c..e
MatchGroups(t, i, c, e) ==
    IF c # 0 /\ c <= Len(t) /\ e >= c
    THEN [ok |-> TRUE, g1 |-> SubSeq(t, i, e), g2 |-> RcGroup(t, e)]
    ELSE [ok |-> FALSE, g1 |-> <<>>, g2 |-> <<>>]

\* the match whose fourth number starts at position c
MatchFourth(t, i, c) ==
    MatchGroups(t, i, c, IF c = 0 \/ c > Len(t) THEN 0 ELSE RunEnd(t, c))

\* LKGM_RE matched at position i: the texts of group 1 and of group 2
MatchAt(t, i) ==
    MatchFourth(t, i, DotAfter(t, DotAfter(t, DotAfter(t, i))))

\* re.search(LKGM_RE, version_string): the leftmost match
RECURSIVE SearchFrom(_, _)
SearchFrom(t, i) ==
    IF i > Len(t) THEN [ok |-> FALSE, g1 |-> <<>>, g2 |-> <<>>]
    ELSE IF MatchAt(t, i).ok THEN MatchAt(t, i)
    ELSE SearchFrom(t, i + 1)

LKGM_RE(t) == SearchFrom(t, 1)

\* the position of the first dot of t from position i on, 0 if none
RECURSIVE FirstDot(_, _)
FirstDot(t, i) ==
    IF i > Len(t) THEN 0
    ELSE IF t[i] = "." THEN i
    ELSE FirstDot(t, i + 1)

RECURSIVE SplitDots(_)
\* text.split('.')
SplitDots(t) ==
    IF FirstDot(t, 1) = 0 THEN <<t>>
    ELSE <<SubSeq(t, 1, FirstDot(t, 1) - 1)>>
             \o SplitDots(SubSeq(t, FirstDot(t, 1) + 1, Len(t)))

\* the four components of the split text, kept as text
VersionParts(parts) ==
    [ver_maj |-> parts[1], ver_min |-> parts[2],
     ver_sp |-> parts[3], ver_patch |-> parts[4]]

\* VersionInfo.__init__(version_string)
VersionInfoInit(g1) == VersionParts(SplitDots(g1))

\* the revision after __init__: 1 when absent or zero
RevisionOrDefault(g2) ==
    IF g2 # <<>> /\ TextToInt(g2) # 0 THEN TextToInt(g2) ELSE 1

\* the info of a base version and a revision
CandidateInfo(base, revision) ==
    [ver_maj |-> base.ver_maj, ver_min |-> base.ver_min,
     ver_sp |-> base.ver_sp, ver_patch |-> base.ver_patch,
     ver_revision |-> revision]

\* the info built from a match of LKGM_RE
InfoOfMatch(match) ==
    CandidateInfo(VersionInfoInit(match.g1), RevisionOrDefault(match.g2))

\* _LKGMCandidateInfo(version_string), for a text LKGM_RE matches
LKGMCandidateInfo(version_string) == InfoOfMatch(LKGM_RE(version_string))

\* _LKGMCandidateInfo.VersionString
VersionString(info) ==
    info.ver_maj \o <<".">> \o info.ver_min \o <<".">> \o info.ver_sp
        \o <<".">> \o info.ver_patch \o <<"-", "r", "c">>
        \o IntToText(info.ver_revision)

\* map(int, [ver_maj, ver_min, ver_sp, ver_patch, ver_revision])
InfoKey(lkgm) ==
    <<TextToInt(lkgm.ver_maj), TextToInt(lkgm.ver_min),
      TextToInt(lkgm.ver_sp), TextToInt(lkgm.ver_patch),
      lkgm.ver_revision>>

\* _LKGMCandidateInfo.VersionCompare: the sort key of a version text
VersionCompare(version_string) == InfoKey(LKGMCandidateInfo(version_string))

\* mutant: the revision is left as it was
IncrementVersionUnchanged(info) == info

\* _LKGMCandidateInfo.IncrementVersion: the info after self.ver_revision += 1
IncrementVersion(info) ==
    [info EXCEPT !.ver_revision = @ + 1]

RECURSIVE ListLess(_, _)
\* Python's order of two lists of ints: a < b
ListLess(a, b) ==
    IF Len(a) = 0 THEN Len(b) > 0
    ELSE IF Len(b) = 0 THEN FALSE
    ELSE IF a[1] # b[1] THEN a[1] < b[1]
    ELSE ListLess(Tail(a), Tail(b))

\* the text "maj.min.sp.patch" of four numbers
Dotted(maj, min, sp, patch) ==
    IntToText(maj) \o <<".">> \o IntToText(min) \o <<".">> \o IntToText(sp)
        \o <<".">> \o IntToText(patch)

\* the text "maj.min.sp.patch-rcN"
CandidateText(maj, min, sp, patch, rev) ==
    Dotted(maj, min, sp, patch) \o <<"-", "r", "c">> \o IntToText(rev)

NoVersion == <<>>

(***************************************************************************)
(* The shared store as PromoteCandidate sees it: a working copy            *)
(* [base, lkgm, staged] against the remote branch [commits, lkgm].         *)
(***************************************************************************)
NoTarget == <<>>

\* BuildSpecsManager.GetLocalManifest(version): the candidate's manifest path
GetLocalManifest(version) ==
    IF version = NoVersion THEN NoTarget ELSE version \o <<".xml">>

\* BuildSpecsManager._PrepSpecChanges: the working copy resynced to the tip
PrepSpecChanges(w, r) ==
    [base |-> Len(r.commits), lkgm |-> r.lkgm, staged |-> FALSE]

\* manifest_version.CreateSymlink(src, dest): dest replaced by a link to src
CreateSymlink(w, src) ==
    [w EXCEPT !.lkgm = src]

\* git add LKGM_PATH
GitAdd(w) ==
    [w EXCEPT !.staged = TRUE]

\* the remote takes a push only from a working copy that is at its tip
PushAccepted(w, r) ==
    w.base = Len(r.commits)

\* BuildSpecsManager._PushSpecChanges(message): the remote after the push
PushSpecChanges(w, r, message) ==
    LET lkgm == IF w.staged THEN w.lkgm ELSE r.lkgm
    IN  [commits |-> Append(r.commits,
                            [message |-> message, parent |-> w.base,
                             lkgm |-> lkgm]),
         lkgm |-> lkgm]

(***************************************************************************)
(* LKGMManager.PromoteCandidate                                            *)
(***************************************************************************)
NoError == <<>>
NoException == [kind |-> "none", msg |-> NoError]

\* the text of the error the step `op` raises on attempt `i` (numbered from 0)
ErrorText(op, i) == <<op, i>>

\* mutant: range(0, retries), one attempt short
PromoteAttemptsOffByOne(r) == r

\* range(0, retries + 1): the number of attempts
PromoteAttempts(r) == r + 1

\* 'Failed to promote manifest. error: %s' % e
PromoteMessage(e) == <<"Failed to promote manifest. error: ">> \o e

\* 'Automatic: %s promoting %s to LKGM' % (build_name, current_version)
PromoteCommitMessage(p, version) == <<p, version>>

\* where the loop goes after the attempt with index i failed
PromoteAfterFailure(i, r) ==
    IF i + 1 < PromoteAttempts(r) THEN "prep" ELSE "raised"

\* mutant: no return after the push, the loop goes on
PromoteAfterPushNoReturn(i, r) == PromoteAfterFailure(i, r)

\* where the call goes after an accepted push: return
PromoteAfterPush(i, r) == "done"

\* the step the first attempt starts with
PromoteFirstStep == "prep"

\* mutant: a retry that starts after the resync
PromoteRetryStepSkipsResync == "link"

\* the step a retry starts with: the top of the loop body
PromoteRetryStep == "prep"

\* mutant: the link made the wrong way round, the pointer left as it was
PromoteLinkTargetSwapped(p) == work[p].lkgm

\* path_to_candidate, the target the pointer is linked to
PromoteLinkTarget(p) == GetLocalManifest(current_version[p])

\* the except clause: a retryable error e raised by step op of process p
PromoteExcept(p, op, kind) ==
    LET e == ErrorText(op, index[p])
        next == PromoteAfterFailure(index[p], retries[p])
    IN  /\ last_error' = [last_error EXCEPT ![p] = PromoteMessage(e)]
        /\ oplog' = [oplog EXCEPT ![p] =
                        Append(@, [op |-> op, ok |-> FALSE, kind |-> kind,
                                   err |-> e])]
        /\ ppc' = [ppc EXCEPT ![p] =
                      IF next = "raised" THEN "raised" ELSE PromoteRetryStep]
        /\ index' = [index EXCEPT ![p] = IF next = "raised" THEN @ ELSE @ + 1]
        /\ exc' = [exc EXCEPT ![p] =
                      IF next = "raised"
                      THEN [kind |-> "PromoteCandidateException",
                            msg |-> PromoteMessage(e)]
                      ELSE @]

\* a step op of process p that succeeded
PromoteStepOk(p, op) ==
    oplog' = [oplog EXCEPT ![p] =
                 Append(@, [op |-> op, ok |-> TRUE, kind |-> "none",
                            err |-> NoError])]

\* line 273: assert self.current_version
AssertCurrentVersion(version) == version # NoVersion

\* mutant: the assertion of line 277 left out
AssertCandidateLocalDropped(local) == TRUE

\* line 277: assert os.path.exists(path_to_candidate)
AssertCandidateLocal(local) == local

\* lines 273-280: the two assertions, then the first attempt
PromoteEnter(p) ==
    /\ ppc[p] = "call"
    /\ \/ /\ ~AssertCurrentVersion(current_version[p])
          /\ ppc' = [ppc EXCEPT ![p] = "asserted"]
          /\ exc' = [exc EXCEPT ![p] =
                        [kind |-> "AssertionError",
                         msg |-> <<"No current manifest exists.">>]]
       \/ /\ AssertCurrentVersion(current_version[p])
          /\ ~AssertCandidateLocal(have_local[p])
          /\ ppc' = [ppc EXCEPT ![p] = "asserted"]
          /\ exc' = [exc EXCEPT ![p] =
                        [kind |-> "AssertionError",
                         msg |-> <<"Candidate not found locally.">>]]
       \/ /\ AssertCurrentVersion(current_version[p])
          /\ AssertCandidateLocal(have_local[p])
          /\ ppc' = [ppc EXCEPT ![p] =
                        IF 0 < PromoteAttempts(retries[p])
                        THEN PromoteFirstStep ELSE "error"]
          /\ exc' = [exc EXCEPT ![p] =
                        IF 0 < PromoteAttempts(retries[p])
                        THEN @
                        ELSE [kind |-> "UnboundLocalError",
                              msg |-> <<"last_error">>]]
    /\ UNCHANGED <<current_version, have_local, retries, index, last_error,
                   oplog, work, remote>>

\* line 282: self._PrepSpecChanges()
PromotePrep(p) ==
    /\ ppc[p] = "prep"
    /\ \/ /\ work' = [work EXCEPT ![p] = PrepSpecChanges(@, remote)]
          /\ PromoteStepOk(p, "prep")
          /\ ppc' = [ppc EXCEPT ![p] = "link"]
          /\ UNCHANGED <<index, last_error, exc>>
       \/ /\ PromoteExcept(p, "prep", "GitCommandException")
          /\ work' = work
    /\ UNCHANGED <<current_version, have_local, retries, remote>>

\* line 283: manifest_version.CreateSymlink(path_to_candidate, path_to_lkgm)
PromoteLink(p) ==
    /\ ppc[p] = "link"
    /\ \/ /\ work' = [work EXCEPT ![p] =
                         CreateSymlink(@, PromoteLinkTarget(p))]
          /\ PromoteStepOk(p, "link")
          /\ ppc' = [ppc EXCEPT ![p] = "add"]
          /\ exc' = exc
       \/ /\ ppc' = [ppc EXCEPT ![p] = "error"]
          /\ exc' = [exc EXCEPT ![p] =
                        [kind |-> "OSError",
                         msg |-> ErrorText("link", index[p])]]
          /\ oplog' = [oplog EXCEPT ![p] =
                          Append(@, [op |-> "link", ok |-> FALSE,
                                     kind |-> "OSError",
                                     err |-> ErrorText("link", index[p])])]
          /\ work' = work
    /\ UNCHANGED <<current_version, have_local, retries, index, last_error,
                   remote>>

\* lines 284-285: cros_lib.RunCommand(['git', 'add', self.LKGM_PATH])
PromoteAdd(p) ==
    /\ ppc[p] = "add"
    /\ \/ /\ work' = [work EXCEPT ![p] = GitAdd(@)]
          /\ PromoteStepOk(p, "add")
          /\ ppc' = [ppc EXCEPT ![p] = "push"]
          /\ UNCHANGED <<index, last_error, exc>>
       \/ /\ PromoteExcept(p, "add", "RunCommandError")
          /\ work' = work
    /\ UNCHANGED <<current_version, have_local, retries, remote>>

\* lines 286-288: self._PushSpecChanges(...), then return
PromotePush(p) ==
    /\ ppc[p] = "push"
    /\ \/ /\ PushAccepted(work[p], remote)
          /\ remote' = PushSpecChanges(work[p], remote,
                           PromoteCommitMessage(p, current_version[p]))
          /\ work' = [work EXCEPT ![p].base = @ + 1]
          /\ PromoteStepOk(p, "push")
          /\ ppc' = [ppc EXCEPT ![p] = PromoteAfterPush(index[p], retries[p])]
          /\ index' = [index EXCEPT ![p] =
                          IF PromoteAfterPush(index[p], retries[p]) = "done"
                          THEN @ ELSE @ + 1]
          /\ UNCHANGED <<last_error, exc>>
       \/ /\ PromoteExcept(p, "push", "GitCommandException")
          /\ UNCHANGED <<work, remote>>
    /\ UNCHANGED <<current_version, have_local, retries>>

\* no call of GetBuildersStatus under way
StatusIdle ==
    /\ gpc = "idle"
    /\ builders_array = <<>>
    /\ builder_statuses = <<>>
    /\ num_complete = 0
    /\ start_time = 0
    /\ now = 0
    /\ markers = {}
    /\ iters = 0
    /\ sleeps = 0
    /\ syncs = 0
    /\ scans = 0
    /\ gexc = NoException
    /\ store_found = {}
    /\ store_markers = {}

\* no call of CreateNewCandidate or GetLatestCandidate made
CandIdle ==
    /\ cpc = "idle"
    /\ ckind = "none"
    /\ cretries = 0
    /\ cindex = 0
    /\ clast_error = NoError
    /\ cexc = NoException
    /\ iflog = <<>>
    /\ coutcome = "none"
    /\ baseline = Dotted(1, 2, 3, 4)
    /\ ledger = {}
    /\ processed = {}
    /\ self_all = {}
    /\ ledger0 = {}
    /\ calls = 0
    /\ quiet = TRUE
    /\ last_created = NoVersion
    /\ prev_created = NoVersion
    /\ last_current = NoVersion

\* no method of _LKGMCandidateInfo applied
VersionIdle ==
    /\ vpc = "idle"
    /\ va = <<>>
    /\ vb = <<>>
    /\ vall = {}
    /\ vobj = <<>>
    /\ vout = <<>>

CandidateA == CandidateText(1, 2, 3, 4, 1)
CandidateB == CandidateText(1, 2, 3, 4, MaxRev)

InitPromote ==
    /\ ppc = [p \in Procs |-> "call"]
    /\ current_version \in [Procs -> {NoVersion, CandidateA, CandidateB}]
    /\ have_local \in [Procs -> BOOLEAN]
    /\ \A p \in Procs : current_version[p] = NoVersion => ~have_local[p]
    /\ retries \in [Procs -> 0..MaxRetries]
    /\ index = [p \in Procs |-> 0]
    /\ last_error = [p \in Procs |-> NoError]
    /\ exc = [p \in Procs |-> NoException]
    /\ oplog = [p \in Procs |-> <<>>]
    /\ work = [p \in Procs |-> [base |-> 0, lkgm |-> NoTarget,
                                staged |-> FALSE]]
    /\ remote = [commits |-> <<>>, lkgm |-> NoTarget]
    /\ StatusIdle
    /\ CandIdle
    /\ VersionIdle

NextPromote ==
    \E p \in Procs :
        \/ PromoteEnter(p) /\ UNCHANGED <<gvars, cvars, vvars>>
        \/ PromotePrep(p) /\ UNCHANGED <<gvars, cvars, vvars>>
        \/ PromoteLink(p) /\ UNCHANGED <<gvars, cvars, vvars>>
        \/ PromoteAdd(p) /\ UNCHANGED <<gvars, cvars, vvars>>
        \/ PromotePush(p) /\ UNCHANGED <<gvars, cvars, vvars>>

SpecPromote == InitPromote /\ [][NextPromote]_vars

(***************************************************************************)
(* Claims about PromoteCandidate.                                          *)
(***************************************************************************)
Retryable == {"GitCommandException", "RunCommandError"}

\* the retryable failures a call went through, in order
RetryableFailures(log) ==
    SelectSeq(log, LAMBDA e : ~e.ok /\ e.kind \in Retryable)

OpCount(log, op) ==
    Cardinality({j \in 1..Len(log) : log[j].op = op})

AttemptSteps == <<"prep", "link", "add", "push">>

\* the log of n attempts that each got as far as a rejected push
AllPushRejected(log, n) ==
    /\ Len(log) = 4 * n
    /\ \A j \in 1..Len(log) :
          /\ log[j].op = AttemptSteps[((j - 1) % 4) + 1]
          /\ log[j].ok = (log[j].op # "push")

\* C1: PromoteCandidate raises PromoteCandidateException if and only if all
\* retries+1 attempts failed with a retryable error; the exception carries
\* the message of the last failure; against a store that rejects every push
\* exactly retries+1 full attempts (prepare, link, stage, push) were made.
C1_PromoteRaisesIffAllAttemptsFailed ==
    \A p \in Procs :
        LET f == RetryableFailures(oplog[p])
        IN  /\ Len(f) <= retries[p] + 1
            /\ (exc[p].kind = "PromoteCandidateException")
                   <=> (Len(f) = retries[p] + 1)
            /\ (ppc[p] = "raised")
                   <=> (exc[p].kind = "PromoteCandidateException")
            /\ exc[p].kind = "PromoteCandidateException" =>
                  /\ exc[p].msg = <<"Failed to promote manifest. error: ">>
                                      \o f[Len(f)].err
                  /\ f[Len(f)].err[2] = retries[p]
                  /\ \A i \in 1..Len(f) : f[i].err[2] = i - 1
                  /\ ((\A i \in 1..Len(f) : f[i].op = "push")
                         => AllPushRejected(oplog[p], retries[p] + 1))

C1_Witness ==
    \E p \in Procs :
        /\ ppc[p] = "raised"
        /\ retries[p] = MaxRetries
        /\ AllPushRejected(oplog[p], MaxRetries + 1)

\* C2: when the first k-1 attempts fail and the k-th push is accepted
\* (1 <= k <= retries+1), the call returns right after that push, with no
\* exception and no further attempt, and the commit it pushed made the LKGM
\* pointer reference the manifest of the current candidate.
C2_PromoteReturnsAtFirstAcceptedPush ==
    \A p \in Procs :
        LET f == RetryableFailures(oplog[p])
            log == oplog[p]
            mine == {i \in 1..Len(remote.commits) :
                        remote.commits[i].message[1] = p}
        IN  /\ ppc[p] = "done" =>
                  /\ Len(f) + 1 <= retries[p] + 1
                  /\ index[p] = Len(f)
                  /\ exc[p] = NoException
                  /\ Len(log) > 0
                  /\ log[Len(log)].op = "push" /\ log[Len(log)].ok
                  /\ Cardinality({j \in 1..Len(log) :
                                     log[j].op = "push" /\ log[j].ok}) = 1
                  /\ OpCount(log, "prep") = Len(f) + 1
                  /\ Cardinality(mine) = 1
            /\ \A i \in mine :
                  /\ ppc[p] = "done"
                  /\ remote.commits[i].lkgm
                         = current_version[p] \o <<".xml">>
                  /\ (i = Len(remote.commits)
                         => remote.lkgm = current_version[p] \o <<".xml">>)

C2_Witness ==
    \E p \in Procs :
        /\ ppc[p] = "done"
        /\ retries[p] = 2
        /\ Len(RetryableFailures(oplog[p])) = 2
        /\ \A i \in 1..2 : RetryableFailures(oplog[p])[i].op = "push"
        /\ remote.lkgm = current_version[p] \o <<".xml">>

\* C3: no push is a blind overwrite: every push a promoter attempts comes
\* after a resync, the link and the staging of the same attempt, so after a
\* rejected push there is a fresh resync before the next push; and every
\* commit the remote took was made on the tip, so no accepted update is lost.
C3_PushAlwaysAfterResync ==
    /\ \A p \in Procs :
          \A j \in 1..Len(oplog[p]) :
              oplog[p][j].op = "push" =>
                  /\ j >= 4
                  /\ oplog[p][j - 3].op = "prep" /\ oplog[p][j - 3].ok
                  /\ oplog[p][j - 2].op = "link" /\ oplog[p][j - 2].ok
                  /\ oplog[p][j - 1].op = "add" /\ oplog[p][j - 1].ok
    /\ \A p \in Procs :
          ppc[p] = "push" =>
              /\ Len(oplog[p]) >= 3
              /\ oplog[p][Len(oplog[p]) - 2].op = "prep"
              /\ oplog[p][Len(oplog[p]) - 2].ok
    /\ \A i \in 1..Len(remote.commits) : remote.commits[i].parent = i - 1

C3_Witness ==
    \E p, q \in Procs :
        /\ p # q
        /\ ppc[p] = "done" /\ ppc[q] = "done"
        /\ Len(remote.commits) = 2
        /\ remote.commits[1].message[1] = p
        /\ remote.commits[2].message[1] = q
        /\ \E j \in 1..Len(oplog[q]) :
              oplog[q][j].op = "push" /\ ~oplog[q][j].ok

\* C4: the remote changes only in the step that completes an attempt: the
\* accepted push, after which the call is done and the remote pointer
\* references the candidate; a step that fails leaves the remote as it was.
C4_RemoteChangesOnlyByCompletedAttempt ==
    [][ /\ remote' # remote =>
              \E p \in Procs :
                  /\ ppc[p] = "push" /\ ppc'[p] = "done"
                  /\ remote'.lkgm = current_version[p] \o <<".xml">>
                  /\ Len(remote'.commits) = Len(remote.commits) + 1
                  /\ SubSeq(remote'.commits, 1, Len(remote.commits))
                         = remote.commits
        /\ \A p \in Procs :
              (/\ Len(oplog'[p]) > Len(oplog[p])
               /\ ~oplog'[p][Len(oplog'[p])].ok) => remote' = remote
        /\ \A p \in Procs :
              (ppc[p] # "done" /\ ppc'[p] = "done") =>
                  remote'.lkgm = current_version[p] \o <<".xml">>
      ]_vars

C4_Witness ==
    \E p \in Procs :
        /\ ppc[p] = "done"
        /\ Len(RetryableFailures(oplog[p])) >= 1
        /\ Len(remote.commits) = 1
        /\ remote.lkgm = current_version[p] \o <<".xml">>

(***************************************************************************)
(* LKGMManager.GetBuildersStatus                                           *)
(***************************************************************************)
MAX_TIMEOUT_SECONDS == 300
SLEEP_TIMEOUT == 30

BuilderNames == {"b1", "b2"}
MarkerKinds == {"pass", "fail", "inflight"}

\* the seconds one _SyncGitRepo may take
SyncDurations == {0, 45}

RECURSIVE ListsUpTo(_)
\* the lists of builder names of length at most n
ListsUpTo(n) ==
    IF n = 0 THEN {<<>>}
    ELSE ListsUpTo(n - 1)
             \cup {Append(l, b) : l \in {x \in ListsUpTo(n - 1) :
                                            Len(x) = n - 1},
                                  b \in BuilderNames}

NamesOf(arr) == {arr[i] : i \in 1..Len(arr)}

\* builder_statuses.get(builder, None)
StatusGet(st, b) == IF b \in DOMAIN st THEN st[b] ELSE "None"

\* builder_statuses[builder] = value
StatusPut(st, b, value) ==
    [x \in (DOMAIN st) \cup {b} |-> IF x = b THEN value ELSE st[x]]

\* mutant: the timeout compared with <= instead of <
LoopConditionInclusive(t, start) == (t - start) <= MAX_TIMEOUT_SECONDS

\* the while condition: (time.time() - start_time) < MAX_TIMEOUT_SECONDS
LoopCondition(t, start) == (t - start) < MAX_TIMEOUT_SECONDS

\* mutant: a builder is examined again whatever its status
NeedsCheckAlways(st, b) == TRUE

\* line 241: builder_statuses.get(builder, None) not in ['pass', 'fail']
NeedsCheck(st, b) == StatusGet(st, b) \notin {"pass", "fail"}

\* mutant: the fail marker is looked for before the pass marker
MarkerStatusFailFirst(m, b) ==
    IF <<b, "fail">> \in m THEN "fail"
    ELSE IF <<b, "pass">> \in m THEN "pass"
    ELSE IF <<b, "inflight">> \in m THEN "inflight"
    ELSE "None"

\* mutant: a builder with no marker gets a status outside the four values
MarkerStatusUnknown(m, b) ==
    IF <<b, "pass">> \in m THEN "pass"
    ELSE IF <<b, "fail">> \in m THEN "fail"
    ELSE IF <<b, "inflight">> \in m THEN "inflight"
    ELSE "unknown"

\* lines 246-257: the status the marker files of builder b give
MarkerStatus(m, b) ==
    IF <<b, "pass">> \in m THEN "pass"
    ELSE IF <<b, "fail">> \in m THEN "fail"
    ELSE IF <<b, "inflight">> \in m THEN "inflight"
    ELSE "None"

RECURSIVE ScanBuilders(_, _, _, _)
\* lines 240-258: the for loop over builders_array
ScanBuilders(arr, st, nc, m) ==
    IF arr = <<>> THEN [statuses |-> st, num_complete |-> nc]
    ELSE LET b == Head(arr)
         IN  IF NeedsCheck(st, b)
             THEN LET v == MarkerStatus(m, b)
                  IN  ScanBuilders(Tail(arr), StatusPut(st, b, v),
                                   IF v \in {"pass", "fail"} THEN nc + 1
                                   ELSE nc, m)
             ELSE ScanBuilders(Tail(arr), st, nc, m)

\* line 260: num_complete < len(builders_array)
MustWait(nc, arr) == nc < Len(arr)

\* mutant: the iteration goes to the builders without a resync
LoopBodyFirstStepNoSync == "scan"

\* line 239: the first statement of the loop body is the resync
LoopBodyFirstStep == "sync"

\* line 238: the test of the while loop
StatusTest ==
    /\ gpc = "test"
    /\ IF LoopCondition(now, start_time)
       THEN gpc' = LoopBodyFirstStep /\ iters' = iters + 1
       ELSE gpc' = "done" /\ iters' = iters
    /\ UNCHANGED <<builders_array, builder_statuses, num_complete,
                   start_time, now, markers, sleeps, syncs, scans, gexc,
                   store_found, store_markers>>

\* mutant: the resync pushes the local markers to the store as well
SyncGitRepoPushes(local, store) ==
    [local |-> local \cup store, store |-> local \cup store]

\* lines 24-30: git remote update, git rebase origin/master: the local copy
\* takes what the store holds, and the store is left as it was found
SyncGitRepo(local, store) ==
    [local |-> store, store |-> store]

\* the local markers and the store after a resync that found `found`
SyncedTo(found, synced) ==
    /\ markers' = synced.local
    /\ store_found' = found
    /\ store_markers' = synced.store

\* line 239: _SyncGitRepo(self.manifests_dir); the markers of the store, as
\* the other builders have left them at this moment, become the local ones
StatusSync ==
    /\ gpc = "sync"
    /\ \/ \E m \in SUBSET (NamesOf(builders_array) \X MarkerKinds),
             d \in SyncDurations :
             /\ SyncedTo(m, SyncGitRepo(markers, m))
             /\ now' = now + d
             /\ gpc' = "scan"
             /\ gexc' = gexc
       \/ \E d \in SyncDurations :
             /\ now' = now + d
             /\ gpc' = "raised"
             /\ gexc' = [kind |-> "RunCommandError",
                         msg |-> ErrorText("sync", iters)]
             /\ UNCHANGED <<markers, store_found, store_markers>>
    /\ syncs' = syncs + 1
    /\ UNCHANGED <<builders_array, builder_statuses, num_complete,
                   start_time, iters, sleeps, scans>>

\* lines 240-264: the for loop, then the choice between sleep and break
StatusScan ==
    /\ gpc = "scan"
    /\ LET r == ScanBuilders(builders_array, builder_statuses, num_complete,
                             markers)
       IN  /\ builder_statuses' = r.statuses
           /\ num_complete' = r.num_complete
           /\ gpc' = IF MustWait(r.num_complete, builders_array)
                     THEN "sleep" ELSE "done"
    /\ scans' = scans + 1
    /\ UNCHANGED <<builders_array, start_time, now, markers, iters, sleeps,
                   syncs, gexc, store_found, store_markers>>

\* line 262: time.sleep(self.SLEEP_TIMEOUT)
StatusSleep ==
    /\ gpc = "sleep"
    /\ now' = now + SLEEP_TIMEOUT
    /\ sleeps' = sleeps + 1
    /\ gpc' = "test"
    /\ UNCHANGED <<builders_array, builder_statuses, num_complete,
                   start_time, markers, iters, syncs, scans, gexc,
                   store_found, store_markers>>

\* no call of PromoteCandidate under way
PromoteIdle ==
    /\ ppc = [p \in Procs |-> "idle"]
    /\ current_version = [p \in Procs |-> CandidateA]
    /\ have_local = [p \in Procs |-> TRUE]
    /\ retries = [p \in Procs |-> 0]
    /\ index = [p \in Procs |-> 0]
    /\ last_error = [p \in Procs |-> NoError]
    /\ exc = [p \in Procs |-> NoException]
    /\ oplog = [p \in Procs |-> <<>>]
    /\ work = [p \in Procs |-> [base |-> 0, lkgm |-> NoTarget,
                                staged |-> FALSE]]
    /\ remote = [commits |-> <<>>, lkgm |-> NoTarget]

\* lines 223-235: the call starts
InitStatus ==
    /\ PromoteIdle
    /\ gpc = "test"
    /\ builders_array \in ListsUpTo(MaxBuilders)
    /\ builder_statuses = <<>>
    /\ num_complete = 0
    /\ start_time = 0
    /\ now = 0
    /\ markers = {}
    /\ iters = 0
    /\ sleeps = 0
    /\ syncs = 0
    /\ scans = 0
    /\ gexc = NoException
    /\ store_found = {}
    /\ store_markers = {}
    /\ CandIdle
    /\ VersionIdle

NextStatus ==
    \/ StatusTest /\ UNCHANGED <<pvars, cvars, vvars>>
    \/ StatusSync /\ UNCHANGED <<pvars, cvars, vvars>>
    \/ StatusScan /\ UNCHANGED <<pvars, cvars, vvars>>
    \/ StatusSleep /\ UNCHANGED <<pvars, cvars, vvars>>

SpecStatus == InitStatus /\ [][NextStatus]_vars

\* the scheduler runs the call: every step that can be taken is taken
FairSpecStatus == SpecStatus /\ WF_vars(NextStatus)

(***************************************************************************)
(* Claims about GetBuildersStatus.                                         *)
(***************************************************************************)
Terminal == {"pass", "fail"}

\* an iteration of the poll loop has been completed
IterationDone ==
    iters >= 2 \/ (iters = 1 /\ gpc \in {"sleep", "test", "done"})

\* C5: once a builder's entry is pass or fail it keeps that value in every
\* later iteration and in the returned map, whatever the markers do.
C5_TerminalStatusIsKept ==
    [][\A b \in BuilderNames :
          StatusGet(builder_statuses, b) \in Terminal =>
              StatusGet(builder_statuses', b) = StatusGet(builder_statuses, b)
      ]_vars

C5_Witness ==
    \E b \in BuilderNames :
        /\ gpc \in {"sleep", "done"}
        /\ iters >= 2
        /\ StatusGet(builder_statuses, b) = "pass"
        /\ <<b, "pass">> \notin markers
        /\ <<b, "inflight">> \in markers

\* C6: for any list of builders the loop is left, without a sleep, at the end
\* of the first iteration after which every builder of the list is pass or
\* fail; with all terminal markers present in the first iteration the call
\* returns with every entry terminal and no sleep.
C6_LeavesLoopWhenAllTerminal ==
    /\ gpc = "sleep" =>
          \E b \in NamesOf(builders_array) :
              StatusGet(builder_statuses, b) \notin Terminal
    /\ (/\ iters = 1
        /\ gpc \in {"sleep", "test", "done"}
        /\ \A b \in NamesOf(builders_array) :
              <<b, "pass">> \in markers \/ <<b, "fail">> \in markers)
          => /\ gpc = "done"
             /\ sleeps = 0
             /\ \A b \in NamesOf(builders_array) :
                   StatusGet(builder_statuses, b) \in Terminal

\* the same for lists that name no builder twice
C6_DistinctNames ==
    Cardinality(NamesOf(builders_array)) = Len(builders_array)
        => C6_LeavesLoopWhenAllTerminal

\* ceil(MAX_TIMEOUT_SECONDS / SLEEP_TIMEOUT)
MaxIterations ==
    (MAX_TIMEOUT_SECONDS + SLEEP_TIMEOUT - 1) \div SLEEP_TIMEOUT

\* C7: the call always ends; no iteration starts once the elapsed time has
\* reached the timeout, so at most ceil(MAX_TIMEOUT_SECONDS / SLEEP_TIMEOUT)
\* iterations run; on timeout the map is returned as it stands, no exception.
C7_StatusAlwaysTerminates ==
    /\ [](/\ iters <= MaxIterations
          /\ (gpc = "sync" => (now - start_time) < MAX_TIMEOUT_SECONDS)
          /\ (gpc = "done" => gexc = NoException)
          /\ (gpc = "done" /\ num_complete < Len(builders_array)
                 => (now - start_time) >= MAX_TIMEOUT_SECONDS))
    /\ <>(gpc \in {"done", "raised"})

C7_Witness ==
    /\ gpc = "done"
    /\ iters = MaxIterations
    /\ sleeps = MaxIterations
    /\ gexc = NoException
    /\ \E b \in NamesOf(builders_array) :
          StatusGet(builder_statuses, b) \notin Terminal

\* C8: after every iteration and in the returned map the keys are exactly
\* the builder names passed in and every value is None, inflight, pass or
\* fail.
C8_StatusMapShape ==
    /\ DOMAIN builder_statuses \subseteq NamesOf(builders_array)
    /\ \A b \in DOMAIN builder_statuses :
          builder_statuses[b] \in {"None", "inflight", "pass", "fail"}
    /\ IterationDone => DOMAIN builder_statuses = NamesOf(builders_array)

C8_Witness ==
    /\ gpc = "done"
    /\ builders_array = <<"b1", "b2">>
    /\ DOMAIN builder_statuses = {"b1", "b2"}
    /\ builder_statuses["b1"] = "None"
    /\ builder_statuses["b2"] = "inflight"

(***************************************************************************)
(* LKGMManager.CreateNewCandidate and GetLatestCandidate                   *)
(***************************************************************************)
Manager == "p1"

\* the candidates of other versions of the branch a ledger may hold, made by
\* builders whose version file is ahead of this one's
OtherVersions ==
    {{}, {CandidateText(1, 2, 3, 40, 1)}, {CandidateText(1, 2, 3, 5, 1)}}

\* the ledgers the first call may find: the candidates rc1..rcK of the
\* baseline version, with or without the first candidate of another version
InitialLedgers ==
    {{CandidateText(1, 2, 3, 4, r) : r \in 1..k} \cup other :
        k \in 0..MaxRev, other \in OtherVersions}

\* VersionInfo.VersionString of the version file's info: "maj.min.sp.patch"
BaseVersionString(version_info) == version_info

\* the version of the last of the pairs <<sort key, version>>
LastOfKeyed(keyed) ==
    (CHOOSE p \in keyed : \A q \in keyed : ~ListLess(p[1], q[1]))[2]

\* the last of `versions` in the order of the sort keys, each key computed
\* once
LastByKey(versions, key) ==
    LastOfKeyed({<<key[v], v>> : v \in versions})

\* the first of `versions` in the order of the sort keys
FirstByKey(versions, key) ==
    CHOOSE v \in versions : \A u \in versions : ~ListLess(key[u], key[v])

\* sorted(versions, key=self.compare_versions_fn)[-1]
LatestByCompare(versions) ==
    LastByKey(versions, [v \in versions |-> VersionCompare(v)])

\* the lkgm versions that start with the version file's version
MatchedLkgms(all, version_info) ==
    {ver \in all : StartsWith(ver, BaseVersionString(version_info))}

\* the candidate chosen: the latest match, else the version file's version
LatestOfMatched(all, matched_lkgms, version_info) ==
    IF all # {} /\ matched_lkgms # {}
    THEN LKGMCandidateInfo(LatestByCompare(matched_lkgms))
    ELSE LKGMCandidateInfo(BaseVersionString(version_info))

\* the oldest match chosen instead of the latest
OldestOfMatched(all, matched_lkgms, version_info) ==
    IF all # {} /\ matched_lkgms # {}
    THEN LKGMCandidateInfo(
             FirstByKey(matched_lkgms,
                        [v \in matched_lkgms |-> VersionCompare(v)]))
    ELSE LKGMCandidateInfo(BaseVersionString(version_info))

\* mutant: sorted(...)[0], the oldest match
GetLatestCandidateByVersionOldest(all, version_info) ==
    OldestOfMatched(all, MatchedLkgms(all, version_info), version_info)

\* LKGMManager._GetLatestCandidateByVersion
GetLatestCandidateByVersion(all, version_info) ==
    LatestOfMatched(all, MatchedLkgms(all, version_info), version_info)

\* BuildSpecsManager._CreateNewBuildSpec(lkgm_info): the version of the spec
\* the store makes or reuses: the candidate itself when it is new or not yet
\* processed, its next revision when it exists and is processed
CreateNewBuildSpec(lkgm_info, all, done) ==
    IF VersionString(lkgm_info) \notin all THEN VersionString(lkgm_info)
    ELSE IF VersionString(lkgm_info) \notin done THEN VersionString(lkgm_info)
    ELSE VersionString(IncrementVersion(lkgm_info))

\* the versions of the pairs <<sort key, version>> of `new` whose key is
\* greater than every key of `old`
NewerOfKeyed(new, old) ==
    {p[2] : p \in {q \in new : \A u \in old : ListLess(u, q[1])}}

\* the candidates newer than every processed one
NewerThanProcessed(all, done, key) ==
    NewerOfKeyed({<<key[v], v>> : v \in all \ done}, {key[u] : u \in done})

\* the latest of the unprocessed candidates, none when there is none
LatestOrNone(unprocessed) ==
    IF unprocessed = {} THEN NoVersion ELSE LatestByCompare(unprocessed)

\* BuildSpecsManager.latest_unprocessed after _LoadSpecs: the latest candidate
\* newer than every processed one, none when there is no such candidate
LatestUnprocessed(all, done) ==
    LatestOrNone(NewerThanProcessed(all, done,
                                    [v \in all |-> VersionCompare(v)]))

\* range(retries+1): the number of in-flight attempts
InFlightAttempts(r) == r + 1

\* 'Failed to set build in-flight: %s' % e
InFlightMessage(e) == <<"Failed to set build in-flight: ">> \o e

\* line 155: last_error after an attempt failed with e
InFlightLastError(old, e) == InFlightMessage(e)

\* where _SetInFlightWithRetry goes after attempt i failed
InFlightAfterFailure(i, r) ==
    IF i + 1 < InFlightAttempts(r) THEN "retry" ELSE "raised"

\* mutant: no break, the loop goes on after a success
InFlightAfterSuccessNoBreak(i, r) == InFlightAfterFailure(i, r)

\* line 152: break
InFlightAfterSuccess(i, r) == "return"

\* the message the except clauses of lines 187-191 and 215-219 build
OuterMessage(kind, e) ==
    IF kind = "create"
    THEN <<"Failed to generate LKGM Candidate. error: ">> \o e
    ELSE <<"Failed to get next LKGM Candidate. error: ">> \o e

\* a call ended: its outcome, and the history of the successful calls
CandEnd(kind, outcome, version) ==
    /\ coutcome' = outcome
    /\ IF outcome = "ok" /\ kind = "create"
       THEN /\ last_created' = version
            /\ prev_created' = last_created
            /\ quiet' = quiet
       ELSE /\ UNCHANGED <<last_created, prev_created>>
            /\ quiet' = FALSE
    /\ last_current' = IF outcome = "ok" THEN version ELSE last_current

\* the call goes on
CandGoesOn ==
    UNCHANGED <<coutcome, quiet, last_created, prev_created, last_current>>

\* mutant: the in-flight marking is made without a current version too
VersionEstablishedAlways(version) == TRUE

\* lines 179 and 207: if self.current_version
VersionEstablished(version) == version # NoVersion

\* a step of lines 174-178 or 204-206 raised a store or command error, which
\* the except clause of the caller turns into GenerateBuildSpecException
CandStepFails(kind, step) ==
    /\ cexc' = [kind |-> "GenerateBuildSpecException",
                msg |-> OuterMessage(kind, ErrorText(step, 0))]
    /\ CandEnd(kind, "raised", NoVersion)
    /\ cpc' = "idle"

\* lines 174 and 204: the call begins with self._GetCurrentVersionInfo
CandBegin(kind) ==
    /\ cpc = "idle"
    /\ calls < MaxCalls
    /\ calls' = calls + 1
    /\ ckind' = kind
    /\ cindex' = 0
    /\ cretries' = 0
    /\ clast_error' = NoError
    /\ iflog' = <<>>
    /\ \/ CandStepFails(kind, "version")
       \/ /\ cpc' = "load"
          /\ cexc' = NoException
          /\ CandGoesOn
    /\ UNCHANGED <<current_version, baseline, ledger, processed, self_all,
                   ledger0>>

\* lines 175 and 205: self._LoadSpecs(version_info) reads the candidates of
\* the store, as they are at this moment, into self.all
CandLoad ==
    /\ cpc = "load"
    /\ \/ /\ CandStepFails(ckind, "load")
          /\ self_all' = self_all
       \/ /\ self_all' = ledger
          /\ cpc' = "spec"
          /\ cexc' = cexc
          /\ CandGoesOn
    /\ UNCHANGED <<current_version, ckind, cretries, cindex, clast_error,
                   iflog, baseline, ledger, processed, ledger0, calls>>

\* the version lines 176-178 or line 206 may establish from self.all
CandVersions(kind) ==
    IF kind = "create"
    THEN {NoVersion,
          CreateNewBuildSpec(GetLatestCandidateByVersion(self_all, baseline),
                             self_all, processed)}
    ELSE {LatestUnprocessed(self_all, processed)}

\* lines 176-178 and 206: the version is established from self.all, the list
\* _LoadSpecs made, or _CreateNewBuildSpec fails; `cretries` is the argument
\* `retries`, read only by _SetInFlightWithRetry
CandSpec ==
    /\ cpc = "spec"
    /\ \/ /\ ckind = "create"
          /\ CandStepFails(ckind, "spec")
          /\ cretries' = 0
          /\ UNCHANGED <<current_version, ledger>>
       \/ \E v \in CandVersions(ckind) :
             /\ current_version' = [current_version EXCEPT ![Manager] = v]
             /\ ledger' = IF v = NoVersion THEN ledger ELSE ledger \cup {v}
             /\ cexc' = NoException
             /\ IF VersionEstablished(v)
                THEN /\ cpc' = "inflight"
                     /\ cretries' \in 0..MaxRetries
                     /\ CandGoesOn
                ELSE /\ cpc' = "idle"
                     /\ cretries' = 0
                     /\ CandEnd(ckind, "none", NoVersion)
    /\ UNCHANGED <<ckind, cindex, clast_error, iflog, baseline, processed,
                   self_all, ledger0, calls>>

\* the errors the except clause of lines 153-154 catches
InFlightRetryable == {"GitCommandException", "RunCommandError"}

\* the errors self._SetInFlight may raise: the two above, and one of another
\* kind
InFlightFailures == InFlightRetryable \cup {"OSError"}

\* mutant: a bare except, every error is caught and retried
InFlightCatchesAll(k) == TRUE

\* lines 153-154: except (GitCommandException, RunCommandError)
InFlightCatches(k) == k \in InFlightRetryable

\* the errors the except clauses of lines 187-188 and 215-216 catch
OuterCaught == {"RunCommandError", "GitCommandException"}

\* lines 187-191 and 215-219: the exception e on its way out of the caller
OuterExcept(kind, e) ==
    IF e.kind \in OuterCaught
    THEN [kind |-> "GenerateBuildSpecException",
          msg |-> OuterMessage(kind, e.msg)]
    ELSE e

\* the loop of lines 149-158 goes on with its next index
InFlightGoesOn(msg) ==
    /\ cpc' = "inflight"
    /\ cretries' = cretries
    /\ cindex' = cindex + 1
    /\ clast_error' = msg
    /\ cexc' = cexc
    /\ CandGoesOn

\* the call ends, and with it the locals of _SetInFlightWithRetry
InFlightEnds(outcome, exception) ==
    /\ cpc' = "idle"
    /\ cretries' = 0
    /\ cindex' = 0
    /\ clast_error' = NoError
    /\ cexc' = OuterExcept(ckind, exception)
    /\ CandEnd(ckind, outcome, current_version[Manager])

\* where the call goes after an attempt: on, to the raise of line 160 (which
\* the except clauses of the callers do not catch), or to the return
InFlightNext(next, msg) ==
    IF next = "retry" THEN InFlightGoesOn(msg)
    ELSE IF next = "raised"
    THEN InFlightEnds("raised", [kind |-> "GenerateBuildSpecException",
                                 msg |-> msg])
    ELSE InFlightEnds("ok", cexc)

\* lines 149-160: one attempt of self._SetInFlight(commit_message)
CandInFlight ==
    /\ cpc = "inflight"
    /\ \/ /\ processed' = processed \cup {current_version[Manager]}
          /\ iflog' = Append(iflog, [ok |-> TRUE, retryable |-> FALSE,
                                     err |-> NoError])
          /\ InFlightNext(InFlightAfterSuccess(cindex, cretries), clast_error)
       \/ \E k \in InFlightFailures :
             /\ processed' = processed
             /\ iflog' = Append(iflog,
                                [ok |-> FALSE,
                                 retryable |-> k \in InFlightRetryable,
                                 err |-> ErrorText("inflight", cindex)])
             /\ IF InFlightCatches(k)
                THEN InFlightNext(
                         InFlightAfterFailure(cindex, cretries),
                         InFlightLastError(clast_error,
                                           ErrorText("inflight", cindex)))
                ELSE InFlightEnds("error",
                                  [kind |-> k,
                                   msg |-> ErrorText("inflight", cindex)])
    /\ UNCHANGED <<current_version, ckind, baseline, ledger, self_all,
                   ledger0, calls>>

\* the candidate another builder makes after `latest`
NextCandidateAfter(latest, all) ==
    IF VersionString(latest) \in all
    THEN IncrementVersion(latest)
    ELSE latest

\* the ledger takes the candidate `info` of another builder
LedgerTakes(info) ==
    /\ info.ver_revision <= MaxRev
    /\ ledger' = ledger \cup {VersionString(info)}

\* another builder of the branch, at the same baseline, adds the next
\* candidate to the ledger, between any two steps of this manager
EnvAddCandidate ==
    /\ LedgerTakes(NextCandidateAfter(
                       GetLatestCandidateByVersion(ledger, baseline), ledger))
    /\ quiet' = FALSE
    /\ UNCHANGED <<current_version, cpc, ckind, cretries, cindex,
                   clast_error, cexc, iflog, coutcome, baseline, processed,
                   self_all, ledger0, calls, last_created, prev_created,
                   last_current>>

InitCand ==
    /\ ppc = [p \in Procs |-> "idle"]
    /\ current_version = [p \in Procs |-> NoVersion]
    /\ have_local = [p \in Procs |-> FALSE]
    /\ retries = [p \in Procs |-> 0]
    /\ index = [p \in Procs |-> 0]
    /\ last_error = [p \in Procs |-> NoError]
    /\ exc = [p \in Procs |-> NoException]
    /\ oplog = [p \in Procs |-> <<>>]
    /\ work = [p \in Procs |-> [base |-> 0, lkgm |-> NoTarget,
                                staged |-> FALSE]]
    /\ remote = [commits |-> <<>>, lkgm |-> NoTarget]
    /\ StatusIdle
    /\ cpc = "idle"
    /\ ckind = "none"
    /\ cretries = 0
    /\ cindex = 0
    /\ clast_error = NoError
    /\ cexc = NoException
    /\ iflog = <<>>
    /\ coutcome = "none"
    /\ baseline = Dotted(1, 2, 3, 4)
    /\ ledger \in InitialLedgers
    /\ processed \in SUBSET ledger
    /\ self_all = {}
    /\ ledger0 = ledger
    /\ calls = 0
    /\ quiet = TRUE
    /\ last_created = NoVersion
    /\ prev_created = NoVersion
    /\ last_current = NoVersion
    /\ VersionIdle

NextCand ==
    \/ \E kind \in {"create", "latest"} :
          CandBegin(kind)
              /\ UNCHANGED <<ppc, have_local, retries, index, last_error, exc,
                             oplog, work, remote, gvars, vvars>>
    \/ CandLoad
          /\ UNCHANGED <<ppc, have_local, retries, index, last_error, exc,
                         oplog, work, remote, gvars, vvars>>
    \/ CandSpec
          /\ UNCHANGED <<ppc, have_local, retries, index, last_error, exc,
                         oplog, work, remote, gvars, vvars>>
    \/ CandInFlight
          /\ UNCHANGED <<ppc, have_local, retries, index, last_error, exc,
                         oplog, work, remote, gvars, vvars>>
    \/ EnvAddCandidate
          /\ UNCHANGED <<ppc, have_local, retries, index, last_error, exc,
                         oplog, work, remote, gvars, vvars>>

SpecCand == InitCand /\ [][NextCand]_vars

(***************************************************************************)
(* Claims about CreateNewCandidate and GetLatestCandidate                   *)
(***************************************************************************)
\* the (major, minor, sp, patch) of a candidate's info
BaseOf(info) == <<info.ver_maj, info.ver_min, info.ver_sp, info.ver_patch>>

\* info b is a later revision of the version of info a
LaterRevision(a, b) ==
    /\ BaseOf(a) = BaseOf(b)
    /\ b.ver_revision > a.ver_revision

\* C9: two successive successful calls of CreateNewCandidate against the same
\* baseline yield candidates with the same (major, minor, sp, patch), the
\* second with a strictly greater revision; from baseline 1.2.3.4 and no
\* existing candidates, with nothing else touching the store, the first call
\* yields 1.2.3.4-rc1 and the second 1.2.3.4-rc2.
C9_SuccessiveCandidatesIncrease ==
    /\ prev_created # NoVersion =>
           LaterRevision(LKGMCandidateInfo(prev_created),
                         LKGMCandidateInfo(last_created))
    /\ (ledger0 = {} /\ quiet /\ cpc = "idle" /\ calls = 1) =>
           last_created = <<"1", ".", "2", ".", "3", ".", "4",
                            "-", "r", "c", "1">>
    /\ (ledger0 = {} /\ quiet /\ cpc = "idle" /\ calls = 2) =>
           /\ prev_created = <<"1", ".", "2", ".", "3", ".", "4",
                               "-", "r", "c", "1">>
           /\ last_created = <<"1", ".", "2", ".", "3", ".", "4",
                               "-", "r", "c", "2">>

\* two successful creations in a row from an empty store have happened
C9_Witness ==
    /\ ledger0 = {}
    /\ quiet
    /\ cpc = "idle"
    /\ calls = 2
    /\ prev_created # NoVersion
    /\ last_created # prev_created

\* every attempt logged so far failed with a retryable error
AllFailedSoFar(log) ==
    \A i \in 1..Len(log) : ~log[i].ok /\ log[i].retryable

\* the state the in-flight loop is in before each attempt
InFlightLoopState ==
    cpc = "inflight" =>
        /\ current_version[Manager] # NoVersion
        /\ Len(iflog) = cindex
        /\ cindex < cretries + 1
        /\ AllFailedSoFar(iflog)
        /\ cindex > 0 =>
               clast_error = <<"Failed to set build in-flight: ">>
                                 \o iflog[cindex].err

\* the step that ends a call whose version was established
InFlightLastStep ==
    (cpc = "inflight" /\ cpc' = "idle") =>
        /\ Len(iflog') = Len(iflog) + 1
        /\ Len(iflog') <= cretries + 1
        /\ coutcome' = "ok" <=> iflog'[Len(iflog')].ok
        /\ coutcome' = "ok" =>
               Cardinality({i \in 1..Len(iflog') : iflog'[i].ok}) = 1
        /\ (AllFailedSoFar(iflog') /\ Len(iflog') = cretries + 1) <=>
               cexc'.kind = "GenerateBuildSpecException"
        /\ cexc'.kind = "GenerateBuildSpecException" =>
               cexc'.msg = <<"Failed to set build in-flight: ">>
                               \o iflog'[Len(iflog')].err

\* C10: once a current version is established, the in-flight commit is
\* attempted at most retries+1 times and the attempts stop at the first
\* success, so a successful call has exactly one successful in-flight commit;
\* when all retries+1 attempts fail with a retryable error the call raises
\* GenerateBuildSpecException with the message of the last failed attempt.
C10_InFlightRetryDiscipline ==
    [][InFlightLoopState' /\ InFlightLastStep]_vars

\* a call raised after its retries+1 attempts all failed
C10_Witness ==
    /\ cpc = "idle"
    /\ coutcome = "raised"
    /\ Len(iflog) = MaxRetries + 1
    /\ AllFailedSoFar(iflog)
    /\ cexc = [kind |-> "GenerateBuildSpecException",
               msg |-> <<"Failed to set build in-flight: ">>
                           \o iflog[Len(iflog)].err]

\* C11: when CreateNewCandidate fails because of a store or command error,
\* GenerateBuildSpecException is the exception that reaches the caller and the
\* manager's current version is not left set to a candidate that was never
\* marked in-flight.
C11_NoPartialStateOnFailure ==
    (cpc = "idle" /\ ckind = "create" /\ coutcome = "raised") =>
        /\ cexc.kind = "GenerateBuildSpecException"
        /\ \/ current_version[Manager] = NoVersion
           \/ current_version[Manager] \in processed

(***************************************************************************)
(* Further claims about PromoteCandidate.                                   *)
(***************************************************************************)
\* the call of process p found no current candidate, or no local manifest
PreconditionViolated(p) ==
    current_version[p] = NoVersion \/ ~have_local[p]

\* C12: PromoteCandidate called with no current candidate, or with a current
\* candidate whose manifest is not there locally, fails at once: no step of a
\* promotion attempt is made, nothing is retried, the remote holds no commit
\* of that caller, and the failure is not a PromoteCandidateException.
C12_PreconditionViolationFailsAtOnce ==
    \A p \in Procs :
        (PreconditionViolated(p) /\ ppc[p] # "call") =>
            /\ ppc[p] = "asserted"
            /\ exc[p].kind = "AssertionError"
            /\ oplog[p] = <<>>
            /\ index[p] = 0
            /\ last_error[p] = NoError
            /\ \A j \in 1..Len(remote.commits) :
                   remote.commits[j].message[1] # p

\* a caller with a candidate but no local manifest failed its precondition,
\* while the other caller promoted
C12_Witness ==
    \E p, q \in Procs :
        /\ current_version[p] # NoVersion
        /\ ~have_local[p]
        /\ ppc[p] = "asserted"
        /\ ppc[q] = "done"
        /\ Len(remote.commits) > 0

(***************************************************************************)
(* _LKGMCandidateInfo: its methods applied to version texts                *)
(***************************************************************************)
\* the numbers the versions given are made of
MajorValues == {1, 2}
MinorValues == {2, 10}
SpValues == {3, 10}
PatchValues == {4, 9, 10, 40}

\* the versions given: four numbers, and the N of -rcN (<<>> when there is
\* no suffix)
VersionInputs ==
    [maj : MajorValues, min : MinorValues, sp : SpValues,
     patch : PatchValues, rc : {<<>>} \cup {<<n>> : n \in 0..MaxRev}]

\* the text of a version given: "maj.min.sp.patch" or "maj.min.sp.patch-rcN"
InputText(v) ==
    IF v.rc = <<>> THEN Dotted(v.maj, v.min, v.sp, v.patch)
    ELSE CandidateText(v.maj, v.min, v.sp, v.patch, v.rc[1])

\* Python's comparison of the two keys
CompareKeys(ka, kb) ==
    [key_a |-> ka, key_b |-> kb,
     lt |-> ListLess(ka, kb), eq |-> (ka = kb), gt |-> ListLess(kb, ka)]

\* lines 73-78: VersionCompare of both texts, and the order of the keys
VersionOrder ==
    /\ vpc = "input"
    /\ vpc' = "compared"
    /\ vout' = CompareKeys(VersionCompare(InputText(va)),
                           VersionCompare(InputText(vb)))
    /\ UNCHANGED <<va, vb, vall, vobj>>

\* what VersionString gives, and the object built from that text again
FormatAndParse(text) ==
    [text |-> text, parsed |-> LKGMCandidateInfo(text)]

\* lines 52-71: _LKGMCandidateInfo(text).VersionString()
VersionFormat ==
    /\ vpc = "input"
    /\ vpc' = "formatted"
    /\ vobj' = LKGMCandidateInfo(InputText(va))
    /\ vout' = FormatAndParse(VersionString(vobj'))
    /\ UNCHANGED <<va, vb, vall>>

\* the object as it was before the call, and the text the call returned
IncrementResult(before, after) ==
    [self_before |-> before, returned |-> VersionString(after)]

\* lines 80-83: v = _LKGMCandidateInfo(text); v.IncrementVersion(): the
\* object v after the call, and what the call returned
VersionIncrement ==
    /\ vpc = "input"
    /\ vpc' = "incremented"
    /\ vobj' = IncrementVersion(LKGMCandidateInfo(InputText(va)))
    /\ vout' = IncrementResult(LKGMCandidateInfo(InputText(va)), vobj')
    /\ UNCHANGED <<va, vb, vall>>

InitVersion ==
    /\ PromoteIdle
    /\ StatusIdle
    /\ CandIdle
    /\ vpc = "input"
    /\ va \in VersionInputs
    /\ vb \in VersionInputs
    /\ vall = {}
    /\ vobj = <<>>
    /\ vout = <<>>

NextVersion ==
    \/ VersionOrder /\ UNCHANGED <<pvars, gvars, cvars>>
    \/ VersionFormat /\ UNCHANGED <<pvars, gvars, cvars>>
    \/ VersionIncrement /\ UNCHANGED <<pvars, gvars, cvars>>

SpecVersion == InitVersion /\ [][NextVersion]_vars

(***************************************************************************)
(* Claims about _LKGMCandidateInfo.                                         *)
(***************************************************************************)
\* the 5-tuple of numbers a version given stands for; no suffix counts as 1
TupleOf(v) ==
    <<v.maj, v.min, v.sp, v.patch, IF v.rc = <<>> THEN 1 ELSE v.rc[1]>>

\* the lexicographic order of two 5-tuples of numbers
LexLess(s, t) ==
    \E i \in 1..5 :
        /\ \A j \in 1..(i - 1) : s[j] = t[j]
        /\ s[i] < t[i]

\* the order the keys give is the order of the 5-tuples
OrderMatchesTuples(a, b, out) ==
    /\ out.lt <=> LexLess(TupleOf(a), TupleOf(b))
    /\ out.eq <=> (TupleOf(a) = TupleOf(b))
    /\ out.gt <=> LexLess(TupleOf(b), TupleOf(a))
    /\ Cardinality({x \in {"lt", "eq", "gt"} : out[x]}) = 1

\* C13: the keys VersionCompare produces order versions as the lexicographic
\* order of the 5-tuples (major, minor, sp, patch, revision) of numbers:
\* exactly one of <, =, > holds, equality only for identical 5-tuples, a
\* missing revision counts as 1, components compared as numbers.
C13_CompareIsTupleOrder ==
    vpc = "compared" => OrderMatchesTuples(va, vb, vout)

\* the same for versions whose suffix, when there is one, is not -rc0
C13_ExceptRevisionZero ==
    (vpc = "compared" /\ va.rc # <<0>> /\ vb.rc # <<0>>) =>
        OrderMatchesTuples(va, vb, vout)

\* the text Format(Parse(text)) is expected to be: the text itself when it
\* has the -rcN suffix, the text with -rc1 added when it has none
ExpectedFormat(v) ==
    IF v.rc = <<>> THEN InputText(v) \o <<"-", "r", "c", "1">>
    ELSE InputText(v)

\* C14: VersionString is the inverse of the parse of __init__: for a text
\* maj.min.sp.patch-rcN, N >= 0, the text comes back unchanged; for a text
\* without suffix it comes back with -rc1 added; the text that comes back
\* parses to the same version again.
C14_FormatInvertsParse ==
    vpc = "formatted" =>
        /\ vout.text = ExpectedFormat(va)
        /\ vout.parsed = vobj

\* the same for texts whose suffix, when there is one, is not -rc0
C14_ExceptRevisionZero ==
    (vpc = "formatted" /\ va.rc # <<0>>) =>
        /\ vout.text = ExpectedFormat(va)
        /\ vout.parsed = vobj

\* the original C15: IncrementVersion applied to v returns a version equal
\* to v but for its revision, which is v's plus one, and v itself still has
\* the revision it had before the call.
C15_IncrementLeavesArgument ==
    vpc = "incremented" =>
        /\ vobj = vout.self_before
        /\ LKGMCandidateInfo(vout.returned) =
               [vout.self_before EXCEPT !.ver_revision = @ + 1]

\* C15, amended: IncrementVersion applied to v adds one to the revision of v
\* itself, leaves its major, minor, sp and patch as they were, and returns
\* the text of v as it is after the call.
C15_IncrementInPlace ==
    vpc = "incremented" =>
        /\ vobj = [vout.self_before EXCEPT !.ver_revision = @ + 1]
        /\ vobj.ver_revision = vout.self_before.ver_revision + 1
        /\ vout.returned = VersionString(vobj)
        /\ LKGMCandidateInfo(vout.returned) = vobj

\* the version 1.2.3.4-rcN, N the largest given, has been incremented
C15_Witness ==
    /\ vpc = "incremented"
    /\ va.rc = <<MaxRev>>
    /\ vobj.ver_revision = MaxRev + 1
    /\ vout.self_before.ver_revision = MaxRev

(***************************************************************************)
(* Further claims about CreateNewCandidate and GetLatestCandidate.          *)
(***************************************************************************)
\* the step that ends a call with success
CallSucceeds ==
    cpc = "inflight" /\ cpc' = "idle" /\ coutcome' = "ok"

\* C16: over successive successful calls of GetLatestCandidate and
\* CreateNewCandidate of one builder, against a ledger that only grows, the
\* current version a later call chooses is never smaller, in the order of
\* VersionCompare, than the one an earlier call chose.
C16_CurrentVersionNeverRegresses ==
    [][/\ ledger \subseteq ledger'
       /\ (CallSucceeds /\ last_current # NoVersion) =>
              ~ListLess(VersionCompare(current_version'[Manager]),
                        VersionCompare(last_current))]_vars

\* the same for the calls of GetLatestCandidate alone
C16_LatestNeverRegresses ==
    [][(CallSucceeds /\ ckind = "latest" /\ last_current # NoVersion) =>
           ~ListLess(VersionCompare(current_version'[Manager]),
                     VersionCompare(last_current))]_vars

(***************************************************************************)
(* LKGMManager._GetLatestCandidateByVersion applied to lists of candidates *)
(***************************************************************************)
\* the candidates a list may hold
KnownCandidates ==
    {CandidateText(1, 2, 3, 4, r) : r \in 1..MaxRev}
        \cup {CandidateText(1, 2, 3, 40, 1), CandidateText(1, 2, 3, 5, 1),
              CandidateText(1, 2, 3, 3, 1), CandidateText(1, 2, 3, 4, 10)}

\* the versions the version file may hold
BaselineInputs ==
    {v \in VersionInputs :
        v.maj = 1 /\ v.min = 2 /\ v.sp = 3 /\ v.patch \in {4, 40}
            /\ v.rc = <<>>}

\* lines 133-145: _GetLatestCandidateByVersion(version_info) with self.all
VersionLatest ==
    /\ vpc = "input"
    /\ vpc' = "chosen"
    /\ vobj' = GetLatestCandidateByVersion(vall, InputText(va))
    /\ vout' = VersionString(vobj')
    /\ UNCHANGED <<va, vb, vall>>

InitLatest ==
    /\ PromoteIdle
    /\ StatusIdle
    /\ CandIdle
    /\ vpc = "input"
    /\ va \in BaselineInputs
    /\ vb = va
    /\ vall \in SUBSET KnownCandidates
    /\ vobj = <<>>
    /\ vout = <<>>

NextLatest ==
    VersionLatest /\ UNCHANGED <<pvars, gvars, cvars>>

SpecLatest == InitLatest /\ [][NextLatest]_vars

\* the numbers (major, minor, sp, patch) of an info
NumbersOf(info) ==
    <<TextToInt(info.ver_maj), TextToInt(info.ver_min),
      TextToInt(info.ver_sp), TextToInt(info.ver_patch)>>

\* the known candidates that have the 4-tuple of the baseline v
SameVersion(all, v) ==
    {t \in all :
        NumbersOf(LKGMCandidateInfo(t)) = <<v.maj, v.min, v.sp, v.patch>>}

\* the info chosen is the greatest of `same`, or the baseline at revision 1
ChosenAmong(info, same, v) ==
    /\ NumbersOf(info) = <<v.maj, v.min, v.sp, v.patch>>
    /\ IF same = {} THEN info.ver_revision = 1
       ELSE /\ VersionString(info) \in same
            /\ \A t \in same :
                   LKGMCandidateInfo(t).ver_revision <= info.ver_revision

\* C17: the candidate _GetLatestCandidateByVersion chooses has the (major,
\* minor, sp, patch) of the baseline: the greatest under VersionCompare of
\* the known candidates with that 4-tuple, or the baseline at revision 1
\* when there is none; a candidate with another 4-tuple is never chosen.
C17_ChosenHasBaselineVersion ==
    vpc = "chosen" => ChosenAmong(vobj, SameVersion(vall, va), va)

\* the same when no known candidate's text continues the baseline's text
\* with another digit
C17_ExceptLongerPatch ==
    (vpc = "chosen" /\ \A t \in vall \ SameVersion(vall, va) :
                           ~StartsWith(t, InputText(va))) =>
        ChosenAmong(vobj, SameVersion(vall, va), va)

(***************************************************************************)
(* Further claims about GetBuildersStatus.                                  *)
(***************************************************************************)
\* the marker kinds of builder b among the markers m
OwnMarkers(m, b) == {k \in MarkerKinds : <<b, k>> \in m}

\* the status the priority pass > fail > inflight > none gives
ByPriority(kinds) ==
    IF "pass" \in kinds THEN "pass"
    ELSE IF "fail" \in kinds THEN "fail"
    ELSE IF "inflight" \in kinds THEN "inflight"
    ELSE "None"

\* C18: in each poll iteration a builder that is not yet terminal gets the
\* status its own markers give by the priority pass > fail > inflight > none,
\* whatever the markers of the other builders are.
C18_MarkerPriority ==
    [][gpc = "scan" =>
          \A b \in NamesOf(builders_array) :
              StatusGet(builder_statuses, b) \notin Terminal =>
                  StatusGet(builder_statuses', b)
                      = ByPriority(OwnMarkers(markers, b))]_vars

\* after the first iteration b1, with all three markers, is pass and b2,
\* with its fail and inflight markers, is fail
C18_Witness ==
    /\ iters = 1
    /\ gpc = "done"
    /\ builders_array = <<"b1", "b2">>
    /\ OwnMarkers(markers, "b1") = {"pass", "fail", "inflight"}
    /\ OwnMarkers(markers, "b2") = {"fail", "inflight"}
    /\ builder_statuses["b1"] = "pass"
    /\ builder_statuses["b2"] = "fail"

\* C19: when the store yields no candidate (no spec made by
\* _CreateNewBuildSpec, no latest unprocessed candidate) the call attempts
\* no in-flight commit, raises nothing and returns the empty result; an
\* in-flight commit is attempted only for an established current version.
C19_NoVersionNoInFlight ==
    /\ (cpc = "inflight" \/ iflog # <<>>) =>
           current_version[Manager] # NoVersion
    /\ (cpc = "idle" /\ calls > 0 /\ coutcome = "none") =>
           current_version[Manager] = NoVersion
    /\ (cpc = "idle" /\ calls > 0 /\ current_version[Manager] = NoVersion
            /\ coutcome # "raised") =>
           /\ coutcome = "none"
           /\ iflog = <<>>
           /\ cexc = NoException
           /\ GetLocalManifest(current_version[Manager]) = NoTarget

\* a call of GetLatestCandidate found no unprocessed candidate in a ledger
\* that is not empty, and returned without an in-flight commit
C19_Witness ==
    /\ cpc = "idle"
    /\ calls > 0
    /\ ckind = "latest"
    /\ ledger # {}
    /\ coutcome = "none"
    /\ current_version[Manager] = NoVersion
    /\ iflog = <<>>

\* C20: every poll iteration begins with a resync, the builders' markers are
\* gone through in an iteration only after that iteration's resync has
\* completed, and the resync is made once per iteration also when builders
\* are already terminal: the resyncs are as many as the iterations started.
C20_ResyncOpensEveryIteration ==
    /\ gpc = "sync" => (syncs = iters - 1 /\ scans = syncs)
    /\ gpc = "scan" => (syncs = iters /\ scans = syncs - 1)
    /\ gpc = "raised" => (syncs = iters /\ scans = syncs - 1)
    /\ gpc \in {"sleep", "test", "done"} => (syncs = iters /\ scans = syncs)

\* a second iteration has made its resync with a builder terminal since the
\* first one
C20_Witness ==
    /\ gpc = "scan"
    /\ iters = 2
    /\ syncs = 2
    /\ scans = 1
    /\ \E b \in NamesOf(builders_array) :
           StatusGet(builder_statuses, b) \in Terminal

(***************************************************************************)
(* GetBuildersStatus and PromoteCandidate as the two operations that only  *)
(* observe and consume the current candidate: either one is called.        *)
(***************************************************************************)
InitObserve == InitPromote \/ InitStatus

NextObserve == NextPromote \/ NextStatus

SpecObserve == InitObserve /\ [][NextObserve]_vars

\* a step of GetBuildersStatus leaves the shared store as it is: the markers
\* as the resync found them, the remote branch with the canonical pointer,
\* the candidates and their processed marks
StoreKept ==
    /\ store_markers' = store_found'
    /\ remote' = remote
    /\ ledger' = ledger
    /\ processed' = processed

\* C21: no step of GetBuildersStatus or of PromoteCandidate changes the
\* current version of any manager, whether the call ends in success, in
\* timeout or in failure, and no step of GetBuildersStatus writes to the
\* shared store: no marker, no manifest, not the canonical pointer
C21_CurrentVersionAndStoreKept ==
    [][/\ current_version' = current_version
       /\ (gpc # "idle") => StoreKept]_vars

\* GetBuildersStatus timed out after resyncs that found markers in the
\* store, with the current version it was called with
C21_Witness ==
    /\ gpc = "done"
    /\ num_complete < Len(builders_array)
    /\ syncs > 1
    /\ store_found # {}
    /\ markers = store_found
    /\ current_version[Manager] = CandidateA

(***************************************************************************)
(* The two retry loops: PromoteCandidate is called, or the manager, not    *)
(* inside PromoteCandidate, makes its CreateNewCandidate and               *)
(* GetLatestCandidate calls with their in-flight marking, among the other  *)
(* builders that add candidates. PromoteCandidate does not read the        *)
(* candidates of the store.                                                *)
(***************************************************************************)
InitRetry == InitPromote \/ InitCand

NextRetry ==
    \/ NextPromote
    \/ ppc[Manager] = "idle" /\ NextCand

SpecRetry == InitRetry /\ [][NextRetry]_vars

\* step i of PromoteCandidate of p failed with an error of another kind
PromoteOtherError(p, i) ==
    /\ ~oplog[p][i].ok
    /\ oplog[p][i].kind \notin Retryable

\* that error ended the call of p: no later step, and the caller gets the
\* error itself
PromoteErrorPassedOn(p, i) ==
    /\ i = Len(oplog[p])
    /\ ppc[p] = "error"
    /\ exc[p] = [kind |-> oplog[p][i].kind, msg |-> oplog[p][i].err]
    /\ exc[p].kind # "PromoteCandidateException"

\* attempt i of the in-flight marking failed with an error of another kind
InFlightOtherError(i) ==
    /\ ~iflog[i].ok
    /\ ~iflog[i].retryable

\* that error ended the call: no later attempt, and the caller gets the
\* error itself
InFlightErrorPassedOn(i) ==
    /\ i = Len(iflog)
    /\ cpc = "idle"
    /\ coutcome = "error"
    /\ cexc.kind \in InFlightFailures \ InFlightRetryable
    /\ cexc.msg = iflog[i].err
    /\ cexc.kind # "GenerateBuildSpecException"

\* C22: a step of an attempt of PromoteCandidate, or an attempt of the
\* in-flight marking, that fails with an error other than the two retryable
\* kinds is the last one of the call, and the caller gets that error as it
\* is, not PromoteCandidateException or GenerateBuildSpecException
C22_OtherErrorsPassThrough ==
    /\ \A p \in Procs : \A i \in 1..Len(oplog[p]) :
           PromoteOtherError(p, i) => PromoteErrorPassedOn(p, i)
    /\ \A i \in 1..Len(iflog) :
           InFlightOtherError(i) => InFlightErrorPassedOn(i)

\* a promotion whose first attempt failed with a retryable error and whose
\* second attempt met an error of another kind, with retries left
C22_Witness ==
    \E p \in Procs :
        /\ Len(oplog[p]) > 1
        /\ Len(RetryableFailures(oplog[p])) = 1
        /\ PromoteOtherError(p, Len(oplog[p]))
        /\ index[p] = 1
        /\ index[p] < retries[p]
        /\ exc[p].kind = "OSError"

====
